---- MODULE Spec2Model ----
(***************************************************************************)
(* Model of collision_check.cpp: class CollisionCheck<T> (T = double in    *)
(* main).  The class holds an ego object and a list of surrounding         *)
(* objects, each a trajectory of 2D waypoints plus a radius, and answers   *)
(* collisionCheck().                                                       *)
(*                                                                         *)
(* Numbers.  Waypoint coordinates and radii are integers of a small grid,  *)
(* and every value of type T the code computes from them is modelled by   *)
(* the exact rational it stands for, a record [num, den] in lowest terms   *)
(* with den > 0.  The one irrational operation is the sqrt of eucliDist:   *)
(* a distance (the value eucliDist and Intersection return) is modelled by *)
(* its SQUARE, so a result r of the model stands for the C++ value         *)
(* sqrt(r.num / r.den), and dist < safe_dist is decided on the squares     *)
(* (both sides are >= 0).                                                  *)
(*                                                                         *)
(* Rounding.  On waypoints with small integer coordinates and radii that   *)
(* are small integers or dyadic fractions (0.5, 0.25) the double           *)
(* arithmetic of the code is exact except where a division yields a        *)
(* quotient that is no dyadic fraction (the t1 or t2 of Intersection, kept *)
(* unclamped); the value Intersection then returns is the exact distance   *)
(* up to a few units in the last place.  That decides dist < safe_dist     *)
(* only when the exact distance equals safe_dist, for which the exact      *)
(* distance must be a rational; whether the computed                       *)
(* value falls below the exact one depends on the build (libm's pow,       *)
(* contraction to fused multiply-add), so it is a parameter of the model:  *)
(* the variable roundedBelow, the set of segment pairs of the scene whose  *)
(* computed distance is below the exact one.  It is chosen with the scene  *)
(* and no call changes it, so that a call repeated on the same segments    *)
(* compares the same value.                                                *)
(***************************************************************************)
EXTENDS Integers, Sequences, FiniteSets, TLC

VARIABLES ego, surroundings, roundedBelow, pc, pointDist, dist, distSwapped,
          pairRet, prevPairRet, ret, prevRet

vars == <<ego, surroundings, roundedBelow, pc, pointDist, dist, distSwapped,
          pairRet, prevPairRet, ret, prevRet>>

(***************************************************************************)
(* Bounds of the model.                                                    *)
(***************************************************************************)
\* the two segments of Spec and SegmentsSpec have their end points in
\* (0..MaxCoord)^2
MaxCoord == 2
\* the waypoints of PathsSpec and SceneSpec lie in (0..MaxPathCoord)^2
MaxPathCoord == 1
\* a trajectory of PathsSpec has 0..MaxLen waypoints
MaxLen == 3
\* a trajectory of SceneSpec has 2..MaxSceneLen waypoints
MaxSceneLen == 2
\* radii are 0..MaxRadius
MaxRadius == 1
\* SceneSpec has 0..MaxAgents surrounding objects
MaxAgents == 2

(***************************************************************************)
(* Rational arithmetic for the values of type T.                           *)
(***************************************************************************)
Abs(n) == IF n < 0 THEN -n ELSE n

RECURSIVE Gcd(_, _)
Gcd(a, b) == IF b = 0 THEN a ELSE Gcd(b, a % b)

\* the rational n/d (d # 0) in lowest terms with a positive denominator
Rat(n, d) ==
  IF d = 1 THEN [num |-> n, den |-> 1]
  ELSE LET g == Gcd(Abs(n), Abs(d))
           s == IF d < 0 THEN -1 ELSE 1
       IN [num |-> (s * n) \div g, den |-> (s * d) \div g]

R(n) == [num |-> n, den |-> 1]
RAdd(a, b) == Rat(a.num * b.den + b.num * a.den, a.den * b.den)
RSub(a, b) == Rat(a.num * b.den - b.num * a.den, a.den * b.den)
RMul(a, b) == Rat(a.num * b.num, a.den * b.den)
RDiv(a, b) == Rat(a.num * b.den, a.den * b.num)
RLess(a, b) == a.num * b.den < b.num * a.den
RLeq(a, b) == a.num * b.den <= b.num * a.den
RAbs(a) == [num |-> Abs(a.num), den |-> a.den]
\* pow(v, 2)
Pow2(a) == RMul(a, a)

(***************************************************************************)
(* struct Point<T>.                                                        *)
(***************************************************************************)
Point(x, y) == [x |-> x, y |-> y]

\* a waypoint with integer coordinates
Waypoint(x, y) == Point(R(x), R(y))

(***************************************************************************)
(* CollisionCheck::eucliDist.  The value is the radicand: the C++ result   *)
(* is its square root.  The y term is the code's pow(p1.y + p2.y, 2).      *)
(***************************************************************************)
eucliDist(p1, p2) ==
  RAdd(Pow2(RSub(p1.x, p2.x)), Pow2(RAdd(p1.y, p2.y)))

(***************************************************************************)
(* CollisionCheck::Intersection, line by line.                             *)
(***************************************************************************)
\* the threshold 1e-4 of the parallel test, as a fraction
EpsNum == 1
EpsDen == 10000
Epsilon == Rat(EpsNum, EpsDen)

\* T dx_12 = p2.x - p1.x;  T dy_12 = p2.y - p1.y
dx_12(p1, p2) == RSub(p2.x, p1.x)
dy_12(p1, p2) == RSub(p2.y, p1.y)
\* T dx_34 = p4.x - p3.x;  T dy_34 = p4.y - p3.y
dx_34(p3, p4) == RSub(p4.x, p3.x)
dy_34(p3, p4) == RSub(p4.y, p3.y)

\* T denominator = dy_12 * dx_34 - dx_12 * dy_34
Denominator(p1, p2, p3, p4) ==
  RSub(RMul(dy_12(p1, p2), dx_34(p3, p4)), RMul(dx_12(p1, p2), dy_34(p3, p4)))

\* abs(denominator - 0) < 1e-4.  For waypoints of the grid the denominator
\* is an integer, so the test is denominator = 0 (also in a build that
\* resolves abs to the int overload).
NearParallel(p1, p2, p3, p4) ==
  RLess(RAbs(RSub(Denominator(p1, p2, p3, p4), R(0))), Epsilon)

\* T t1 = ((p1.x - p3.x) * dy_34 + (p3.y - p1.y) * dx_34) / denominator
T1(p1, p2, p3, p4) ==
  RDiv(RAdd(RMul(RSub(p1.x, p3.x), dy_34(p3, p4)),
            RMul(RSub(p3.y, p1.y), dx_34(p3, p4))),
       Denominator(p1, p2, p3, p4))

\* mutant of T2: the numerator of t1 copied, dy_34 and dx_34 left in place
T2_CopiedFromT1(p1, p2, p3, p4) ==
  RDiv(RAdd(RMul(RSub(p1.x, p3.x), dy_34(p3, p4)),
            RMul(RSub(p3.y, p1.y), dx_34(p3, p4))),
       Denominator(p1, p2, p3, p4))

\* T t2 = ((p1.x - p3.x) * dy_12 + (p3.y - p1.y) * dx_12) / denominator
T2(p1, p2, p3, p4) ==
  RDiv(RAdd(RMul(RSub(p1.x, p3.x), dy_12(p1, p2)),
            RMul(RSub(p3.y, p1.y), dx_12(p1, p2))),
       Denominator(p1, p2, p3, p4))

\* mutant of SegmentsIntersect: the end points t = 0 and t = 1 left out
SegmentsIntersect_Open(t1, t2) ==
  /\ RLess(R(0), t1) /\ RLess(t1, R(1))
  /\ RLess(R(0), t2) /\ RLess(t2, R(1))

\* bool segments_intersect = (t1 >= 0) && (t1 <= 1) && (t2 >= 0) && (t2 <= 1)
SegmentsIntersect(t1, t2) ==
  /\ RLeq(R(0), t1) /\ RLeq(t1, R(1))
  /\ RLeq(R(0), t2) /\ RLeq(t2, R(1))

\* t = t < 0 ? 0 : t;  t = t > 1 ? 1 : t;
Clamp(t) ==
  LET lo == IF RLess(t, R(0)) THEN R(0) ELSE t
  IN IF RLess(R(1), lo) THEN R(1) ELSE lo

\* Point<T> close_p1 = {p1.x + dx_12 * t1, p1.y + dy_12 * t1}
ClosePoint1(p1, p2, t1) ==
  Point(RAdd(p1.x, RMul(dx_12(p1, p2), t1)),
        RAdd(p1.y, RMul(dy_12(p1, p2), t1)))

\* Point<T> close_p2 = {p3.x + dx_34 * t2, p1.y + dy_34 * t2}
ClosePoint2(p1, p3, p4, t2) ==
  Point(RAdd(p3.x, RMul(dx_34(p3, p4), t2)),
        RAdd(p1.y, RMul(dy_34(p3, p4), t2)))

\* which return statement Intersection leaves by
Branch(p1, p2, p3, p4) ==
  IF NearParallel(p1, p2, p3, p4) THEN "parallel"
  ELSE IF SegmentsIntersect(T1(p1, p2, p3, p4), T2(p1, p2, p3, p4))
       THEN "intersect"
       ELSE "clamped"

Intersection(p1, p2, p3, p4) ==
  IF NearParallel(p1, p2, p3, p4)
  THEN eucliDist(p1, p2)
  ELSE LET t1 == T1(p1, p2, p3, p4)
           t2 == T2(p1, p2, p3, p4)
       IN IF SegmentsIntersect(t1, t2)
          THEN R(0)
          ELSE eucliDist(ClosePoint1(p1, p2, Clamp(t1)),
                         ClosePoint2(p1, p3, p4, Clamp(t2)))

(***************************************************************************)
(* Where the double arithmetic of Intersection rounds.                     *)
(***************************************************************************)
RECURSIVE IsPowerOfTwo(_)
IsPowerOfTwo(n) == n = 1 \/ (n % 2 = 0 /\ IsPowerOfTwo(n \div 2))

\* a quotient the division of line 73 or 74 yields without rounding
Dyadic(t) == IsPowerOfTwo(t.den)

\* the value returned goes through a t1 or t2 that was rounded: the clamped
\* branch with a parameter left in (0, 1) that is no dyadic fraction
Rounded(p1, p2, p3, p4) ==
  /\ ~NearParallel(p1, p2, p3, p4)
  /\ LET t1 == T1(p1, p2, p3, p4)
         t2 == T2(p1, p2, p3, p4)
     IN /\ ~SegmentsIntersect(t1, t2)
        /\ ~Dyadic(Clamp(t1)) \/ ~Dyadic(Clamp(t2))

\* the least integer from s on whose square is at least n
RECURSIVE RootFrom(_, _)
RootFrom(n, s) == IF s * s >= n THEN s ELSE RootFrom(n, s + 1)

\* n is the square of a positive integer
IsSquare(n) == n > 0 /\ RootFrom(n, 1) * RootFrom(n, 1) = n

\* d (a squared distance, in lowest terms) is the square of a positive
\* rational: the exact distance is a rational, which a sum of two radii
\* can equal
RationalDistance(d) == IsSquare(d.num) /\ IsSquare(d.den)

\* the comparison of line 52 can depend on the rounding, for some radii
RoundedTie(p1, p2, p3, p4) ==
  /\ Rounded(p1, p2, p3, p4)
  /\ RationalDistance(Intersection(p1, p2, p3, p4))

\* the double Intersection(p1, p2, p3, p4) returns is below the exact
\* distance
ComputedBelow(p1, p2, p3, p4) == <<p1, p2, p3, p4>> \in roundedBelow

(***************************************************************************)
(* struct DynamicObj and CollisionCheck::collisionCheckBetweenTwoPaths.    *)
(* Sequences are 1-based: the C++ future_traj[i] is future_traj[i + 1].    *)
(***************************************************************************)
DynamicObj(traj, radius) == [future_traj |-> traj, radius |-> radius]

\* SIZE_MAX, the value size() - 1 wraps to on an empty vector.  The model's
\* integers are 32 bits wide, so the largest of them stands for 2^64 - 1: it
\* exceeds every index the model reaches, which is all the loop test uses.
SizeMax == 2147483647

\* future_traj.size() - 1 in the unsigned arithmetic of size_t
SizeMinusOne(n) == IF n = 0 THEN SizeMax ELSE n - 1

\* T safe_dist = ego.radius + obj.radius
SafeDist(obj, e) == RAdd(e.radius, obj.radius)

\* mutant of DistLess: dist <= safe_dist
DistLess_OrEqual(d, safe_dist, below) ==
  /\ RLeq(R(0), safe_dist)
  /\ RLeq(d, Pow2(safe_dist))

\* dist < safe_dist, with dist given by the square d of the exact distance
\* and by whether the computed value is below the exact one: if it is, an
\* exact distance equal to safe_dist compares as less
DistLess(d, safe_dist, below) ==
  /\ RLess(R(0), safe_dist)
  /\ IF below THEN RLeq(d, Pow2(safe_dist)) ELSE RLess(d, Pow2(safe_dist))

\* the body of the inner loop reads ego.future_traj[i], [i + 1] and
\* obj.future_traj[j], [j + 1] through the unchecked operator[]
OutOfRange(obj, e, i, j) ==
  \/ i + 1 >= Len(e.future_traj)
  \/ j + 1 >= Len(obj.future_traj)

\* mutant of InnerLoop: only the object segment of the same index as the ego
\* segment is looked at (time-aligned pairs)
InnerLoop_Aligned(obj, e, i, j) ==
  IF ~(i < SizeMinusOne(Len(obj.future_traj))) THEN "next"
  ELSE IF OutOfRange(obj, e, i, i) THEN "ub"
  ELSE IF DistLess(Intersection(e.future_traj[i + 1], e.future_traj[i + 2],
                                obj.future_traj[i + 1], obj.future_traj[i + 2]),
                   SafeDist(obj, e),
                   ComputedBelow(e.future_traj[i + 1], e.future_traj[i + 2],
                                 obj.future_traj[i + 1], obj.future_traj[i + 2]))
       THEN "true"
       ELSE "next"

\* for (int j = 0; j < obj.future_traj.size() - 1; j++) from j on, for the
\* ego segment i: "true" (return true), "next" (the loop ends), or "ub"
\* (an out-of-range read)
RECURSIVE InnerLoop(_, _, _, _)
InnerLoop(obj, e, i, j) ==
  IF ~(j < SizeMinusOne(Len(obj.future_traj))) THEN "next"
  ELSE IF OutOfRange(obj, e, i, j) THEN "ub"
  ELSE IF DistLess(Intersection(e.future_traj[i + 1], e.future_traj[i + 2],
                                obj.future_traj[j + 1], obj.future_traj[j + 2]),
                   SafeDist(obj, e),
                   ComputedBelow(e.future_traj[i + 1], e.future_traj[i + 2],
                                 obj.future_traj[j + 1], obj.future_traj[j + 2]))
       THEN "true"
       ELSE InnerLoop(obj, e, i, j + 1)

\* for (int i = 0; i < ego.future_traj.size() - 1; i++) from i on.  With an
\* empty ego trajectory the bound is SIZE_MAX; if the inner loop is empty
\* too, it never returns and never reads, and nothing ends the outer loop
\* before i++ overflows int: "overflow".
RECURSIVE OuterLoop(_, _, _)
OuterLoop(obj, e, i) ==
  IF ~(i < SizeMinusOne(Len(e.future_traj))) THEN "false"
  ELSE LET r == InnerLoop(obj, e, i, 0)
       IN IF r # "next" THEN r
          ELSE IF i >= Len(e.future_traj) THEN "overflow"
          ELSE OuterLoop(obj, e, i + 1)

\* "true", "false", or the undefined behaviour the call runs into: "ub" (an
\* out-of-range read) or "overflow" (signed overflow of the loop counter)
collisionCheckBetweenTwoPaths(obj, e) == OuterLoop(obj, e, 0)

\* What a call of collisionCheckBetweenTwoPaths can do: its defined result,
\* or, on undefined behaviour, any of the results the build can produce.
\* An out-of-range read yields either verdict or no return ("crash"); a
\* loop that only counts until its counter overflows has no return true to
\* reach: it wraps and returns false, or never returns.  ub records that
\* the call ran into undefined behaviour.
Outcomes(r) ==
  CASE r = "ub" ->
         {[out |-> o, ub |-> TRUE] : o \in {"true", "false", "crash"}}
    [] r = "overflow" ->
         {[out |-> o, ub |-> TRUE] : o \in {"false", "crash"}}
    [] OTHER -> {[out |-> r, ub |-> FALSE]}

(***************************************************************************)
(* CollisionCheck::collisionCheck: the first colliding object returns      *)
(* true.  The value is the set of outcomes of the call: a pairwise call    *)
(* that returns false, also one that does so after undefined behaviour, is *)
(* followed by the call on the next object.                                *)
(***************************************************************************)
\* mutant of CheckFrom: the verdict of the first object is returned
CheckFrom_FirstOnly(e, objs, k) ==
  IF k > Len(objs) THEN {[out |-> "false", ub |-> FALSE]}
  ELSE Outcomes(collisionCheckBetweenTwoPaths(objs[k], e))

\* the loop of collisionCheck from the object of index k on
RECURSIVE CheckFrom(_, _, _)
CheckFrom(e, objs, k) ==
  IF k > Len(objs) THEN {[out |-> "false", ub |-> FALSE]}
  ELSE UNION {IF o.out = "false"
              THEN {[out |-> n.out, ub |-> o.ub \/ n.ub] :
                      n \in CheckFrom(e, objs, k + 1)}
              ELSE {o} :
                o \in Outcomes(collisionCheckBetweenTwoPaths(objs[k], e))}

collisionCheck(e, objs) == CheckFrom(e, objs, 1)

(***************************************************************************)
(* The state: the public members ego and surroundings, and what the calls  *)
(* made so far returned.                                                   *)
(***************************************************************************)
\* a T-valued result not computed yet
NoValue == [num |-> 0, den |-> 0]
\* a call not made yet
NoCall == [out |-> "none", ub |-> FALSE]

Grid(m) == {Waypoint(x, y) : x \in 0..m, y \in 0..m}

\* the trajectories of lo..hi waypoints of the grid
Trajectories(m, lo, hi) ==
  UNION {[1..n -> Grid(m)] : n \in lo..hi}

Radii == {R(r) : r \in 0..MaxRadius}

Objects(m, lo, hi) ==
  {DynamicObj(t, r) : t \in Trajectories(m, lo, hi), r \in Radii}

\* the segments of a trajectory, by the index of their first waypoint
Segments(o) == 1..(Len(o.future_traj) - 1)

\* the segment pairs (ego segment, object segment) of a scene, and those on
\* which the comparison of line 52 can depend on the rounding
SegmentPairs(e, objs) ==
  UNION {{<<e.future_traj[i], e.future_traj[i + 1],
            objs[k].future_traj[j], objs[k].future_traj[j + 1]>> :
            i \in Segments(e), j \in Segments(objs[k])} :
          k \in 1..Len(objs)}

RoundedTies(e, objs) ==
  {q \in SegmentPairs(e, objs) : RoundedTie(q[1], q[2], q[3], q[4])}

\* CollisionCheck::CollisionCheck(): the scene the constructor builds
CollisionCheck ==
  [ego |-> DynamicObj(<<Waypoint(1, 2), Waypoint(2, 3)>>, R(0)),
   surroundings |-> <<DynamicObj(<<Waypoint(4, 5), Waypoint(5, 6)>>, R(0)),
                      DynamicObj(<<Waypoint(6, 7), Waypoint(7, 8)>>, R(0))>>]

\* the object is as the constructor left it
Constructed ==
  /\ ego = CollisionCheck.ego
  /\ surroundings = CollisionCheck.surroundings

\* no call made yet; the build's rounding on the segment pairs of the scene
Fresh ==
  /\ roundedBelow \in SUBSET RoundedTies(ego, surroundings)
  /\ pc = "ready"
  /\ pointDist = NoValue
  /\ dist = NoValue
  /\ distSwapped = NoValue
  /\ pairRet = NoCall
  /\ prevPairRet = NoCall
  /\ ret = NoCall
  /\ prevRet = NoCall

\* the two segments the kernel is called on: ego's first and the object's
\* first, as in the call of line 51 with i = j = 0
P1 == ego.future_traj[1]
P2 == ego.future_traj[2]
P3 == surroundings[1].future_traj[1]
P4 == surroundings[1].future_traj[2]

(***************************************************************************)
(* Spec: the geometry kernel on two segments of the grid.                  *)
(***************************************************************************)
Init ==
  /\ \/ Constructed
     \/ /\ ego \in Objects(MaxCoord, 2, 2)
        /\ ego.radius = R(0)
        /\ \E obj \in Objects(MaxCoord, 2, 2) :
              /\ obj.radius = R(0)
              /\ surroundings = <<obj>>
  /\ Fresh

\* eucliDist(p1, p2) on the end points of ego's segment
EucliDistCall ==
  /\ pointDist = NoValue
  /\ pointDist' = eucliDist(P1, P2)
  /\ UNCHANGED <<ego, surroundings, roundedBelow, pc, dist, distSwapped,
                 pairRet, prevPairRet, ret, prevRet>>

\* Intersection(p1, p2, p3, p4)
IntersectionCall ==
  /\ dist = NoValue
  /\ dist' = Intersection(P1, P2, P3, P4)
  /\ UNCHANGED <<ego, surroundings, roundedBelow, pc, pointDist, distSwapped,
                 pairRet, prevPairRet, ret, prevRet>>

\* Intersection with the two segments exchanged
IntersectionSwappedCall ==
  /\ distSwapped = NoValue
  /\ distSwapped' = Intersection(P3, P4, P1, P2)
  /\ UNCHANGED <<ego, surroundings, roundedBelow, pc, pointDist, dist,
                 pairRet, prevPairRet, ret, prevRet>>

Next ==
  \/ EucliDistCall
  \/ IntersectionCall
  \/ IntersectionSwappedCall

Spec == Init /\ [][Next]_vars

(***************************************************************************)
(* PathsSpec: collisionCheckBetweenTwoPaths on ego and one object, then a  *)
(* radius raised and the call made again.                                  *)
(***************************************************************************)
PathsInit ==
  /\ \/ Constructed
     \/ /\ ego \in Objects(MaxPathCoord, 0, MaxLen)
        /\ \E obj \in Objects(MaxPathCoord, 0, MaxLen) : surroundings = <<obj>>
  /\ Fresh

\* collisionCheckBetweenTwoPaths(obj, ego)
PairCall ==
  /\ pc \in {"ready", "raised"}
  /\ pairRet' \in Outcomes(collisionCheckBetweenTwoPaths(surroundings[1], ego))
  /\ pc' = IF pc = "ready" THEN "called" ELSE "recalled"
  /\ UNCHANGED <<ego, surroundings, roundedBelow, pointDist, dist, distSwapped,
                 prevPairRet, ret, prevRet>>

\* the caller raises ego.radius (a public member)
RaiseEgoRadius ==
  /\ pc = "called"
  /\ ego.radius.num < MaxRadius
  /\ ego' = [ego EXCEPT !.radius = RAdd(@, R(1))]
  /\ prevPairRet' = pairRet
  /\ pairRet' = NoCall
  /\ pc' = "raised"
  /\ UNCHANGED <<surroundings, roundedBelow, pointDist, dist, distSwapped,
                 ret, prevRet>>

\* the caller raises the object's radius
RaiseObjRadius ==
  /\ pc = "called"
  /\ surroundings[1].radius.num < MaxRadius
  /\ surroundings' = [surroundings EXCEPT ![1].radius = RAdd(@, R(1))]
  /\ prevPairRet' = pairRet
  /\ pairRet' = NoCall
  /\ pc' = "raised"
  /\ UNCHANGED <<ego, roundedBelow, pointDist, dist, distSwapped, ret, prevRet>>

\* collisionCheck()
CollisionCheckCall ==
  /\ pc \in {"ready", "called", "pushed", "reordered"}
  /\ ret' \in collisionCheck(ego, surroundings)
  /\ pc' = CASE pc = "pushed" -> "checkedPushed"
             [] pc = "reordered" -> "checkedReordered"
             [] OTHER -> "checked"
  /\ UNCHANGED <<ego, surroundings, roundedBelow, pointDist, dist, distSwapped,
                 pairRet, prevPairRet, prevRet>>

PathsNext ==
  \/ PairCall
  \/ RaiseEgoRadius
  \/ RaiseObjRadius

PathsSpec == PathsInit /\ [][PathsNext]_vars

(***************************************************************************)
(* SegmentsSpec: the pairwise check, then collisionCheck, on an ego and    *)
(* one object of one segment each, with every pair of radii.               *)
(***************************************************************************)
SegmentsInit ==
  /\ \/ Constructed
     \/ /\ ego \in Objects(MaxCoord, 2, 2)
        /\ \E obj \in Objects(MaxCoord, 2, 2) : surroundings = <<obj>>
  /\ Fresh

SegmentsPairCall == pc = "ready" /\ PairCall

SegmentsCheckCall == pc = "called" /\ CollisionCheckCall

SegmentsNext ==
  \/ SegmentsPairCall
  \/ SegmentsCheckCall

SegmentsSpec == SegmentsInit /\ [][SegmentsNext]_vars

(***************************************************************************)
(* SceneSpec: collisionCheck on a scene whose trajectories all have at     *)
(* least 2 waypoints; the caller then appends an object to surroundings,   *)
(* or reorders surroundings, and calls collisionCheck again.               *)
(***************************************************************************)
SceneObjects == Objects(MaxPathCoord, 2, MaxSceneLen)

SceneInit ==
  /\ \/ Constructed
     \/ /\ ego \in SceneObjects
        /\ surroundings \in UNION {[1..n -> SceneObjects] : n \in 0..MaxAgents}
  /\ Fresh

SceneCheckCall == pc \in {"ready", "pushed", "reordered"} /\ CollisionCheckCall

\* surroundings.push_back(obj); the build's rounding on the segment pairs
\* that are new to the scene
PushBack ==
  /\ pc = "checked"
  /\ Len(surroundings) < MaxAgents
  /\ \E obj \in SceneObjects :
        /\ surroundings' = Append(surroundings, obj)
        /\ \E new \in SUBSET (RoundedTies(ego, <<obj>>)
                                \ RoundedTies(ego, surroundings)) :
              roundedBelow' = roundedBelow \cup new
  /\ prevRet' = ret
  /\ ret' = NoCall
  /\ pc' = "pushed"
  /\ UNCHANGED <<ego, pointDist, dist, distSwapped, pairRet, prevPairRet>>

\* the caller exchanges two objects of surroundings
Reorder ==
  /\ pc = "checked"
  /\ \E i, j \in 1..Len(surroundings) :
        /\ i < j
        /\ surroundings' = [surroundings EXCEPT ![i] = surroundings[j],
                                                ![j] = surroundings[i]]
  /\ prevRet' = ret
  /\ ret' = NoCall
  /\ pc' = "reordered"
  /\ UNCHANGED <<ego, roundedBelow, pointDist, dist, distSwapped,
                 pairRet, prevPairRet>>

SceneNext ==
  \/ SceneCheckCall
  \/ PushBack
  \/ Reorder

SceneSpec == SceneInit /\ [][SceneNext]_vars

(***************************************************************************)
(* Geometry the claims are stated against, defined from the coordinates    *)
(* and not from the code's operators.                                      *)
(***************************************************************************)
\* the square of the Euclidean distance of two points
SqDistance(p, q) ==
  RAdd(RMul(RSub(p.x, q.x), RSub(p.x, q.x)), RMul(RSub(p.y, q.y), RSub(p.y, q.y)))

\* the point a + t * (b - a) of the line through a and b
PointAt(a, b, t) ==
  Point(RAdd(a.x, RMul(t, RSub(b.x, a.x))), RAdd(a.y, RMul(t, RSub(b.y, a.y))))

\* t restricted to [0, 1]
Clamped(t) == IF t.num < 0 THEN R(0) ELSE IF t.num > t.den THEN R(1) ELSE t

\* (a - o) x (b - o) for waypoints (integer coordinates)
Cross(o, a, b) ==
  (a.x.num - o.x.num) * (b.y.num - o.y.num)
    - (a.y.num - o.y.num) * (b.x.num - o.x.num)

\* (a2 - a1) x (b2 - b1): zero iff the segments are parallel or one is a point
DirCross(a1, a2, b1, b2) ==
  (a2.x.num - a1.x.num) * (b2.y.num - b1.y.num)
    - (a2.y.num - a1.y.num) * (b2.x.num - b1.x.num)

Min(a, b) == IF a < b THEN a ELSE b
Max(a, b) == IF a < b THEN b ELSE a

\* r lies in the bounding box of the segment a-b
InBox(a, b, r) ==
  /\ Min(a.x.num, b.x.num) <= r.x.num /\ r.x.num <= Max(a.x.num, b.x.num)
  /\ Min(a.y.num, b.y.num) <= r.y.num /\ r.y.num <= Max(a.y.num, b.y.num)

\* the segments cross in a point interior to both
ProperlyCross(a1, a2, b1, b2) ==
  /\ Cross(b1, b2, a1) * Cross(b1, b2, a2) < 0
  /\ Cross(a1, a2, b1) * Cross(a1, a2, b2) < 0

\* the closed segments a1-a2 and b1-b2 have a point in common
SegmentsShare(a1, a2, b1, b2) ==
  \/ ProperlyCross(a1, a2, b1, b2)
  \/ Cross(b1, b2, a1) = 0 /\ InBox(b1, b2, a1)
  \/ Cross(b1, b2, a2) = 0 /\ InBox(b1, b2, a2)
  \/ Cross(a1, a2, b1) = 0 /\ InBox(a1, a2, b1)
  \/ Cross(a1, a2, b2) = 0 /\ InBox(a1, a2, b2)

\* the combined radius, and d (a squared distance) strictly below it
Combined(obj) == ego.radius.num + obj.radius.num
StrictlyWithin(d, r) == d.num < r * r * d.den

\* the kernel's distance of ego's segment i and the object's segment j
SegmentDistance(obj, i, j) ==
  Intersection(ego.future_traj[i], ego.future_traj[i + 1],
               obj.future_traj[j], obj.future_traj[j + 1])

\* the kernel's exact distance of the two segments is the combined radius
AtCombined(obj, i, j) ==
  LET d == SegmentDistance(obj, i, j)
  IN d.num = Combined(obj) * Combined(obj) * d.den

\* the distance the code computed for ego's segment i and the object's
\* segment j is strictly below the combined radius
ComputedWithin(obj, i, j) ==
  \/ StrictlyWithin(SegmentDistance(obj, i, j), Combined(obj))
  \/ /\ Combined(obj) > 0
     /\ AtCombined(obj, i, j)
     /\ <<ego.future_traj[i], ego.future_traj[i + 1],
          obj.future_traj[j], obj.future_traj[j + 1]>> \in roundedBelow

\* some segment pair of ego and obj is strictly within the combined radius
SomePairWithin(obj) ==
  \E i \in Segments(ego), j \in Segments(obj) : ComputedWithin(obj, i, j)

(***************************************************************************)
(* Claims on the geometry kernel, checked under Spec.                      *)
(***************************************************************************)
\* the parameters the code computes for the two segments of the state
StateT1 == T1(P1, P2, P3, P4)
StateT2 == T2(P1, P2, P3, P4)

\* C6: segment distance is symmetric in its two segments: Intersection on
\* (a1, a2, b1, b2) and on (b1, b2, a1, a2) return the same value.
C6_Symmetric ==
  (dist # NoValue /\ distSwapped # NoValue) => dist = distSwapped

\* C7: the square of eucliDist(p1, p2) is (p1.x - p2.x)^2 + (p1.y - p2.y)^2.
C7_EuclideanDistance ==
  pointDist # NoValue => pointDist = SqDistance(P1, P2)

\* C8: when the denominator is not near zero, the t1 and t2 of the code are
\* the parameters of one and the same point, along segment A and along
\* segment B; when both lie in [0, 1] Intersection returns exactly 0; and
\* so it does whenever the two segments share a point.
C8_ZeroOnIntersection ==
  (dist # NoValue /\ DirCross(P1, P2, P3, P4) # 0) =>
    /\ PointAt(P1, P2, StateT1) = PointAt(P3, P4, StateT2)
    /\ (Clamped(StateT1) = StateT1 /\ Clamped(StateT2) = StateT2) => dist = R(0)
    /\ SegmentsShare(P1, P2, P3, P4) => dist = R(0)

\* C8 witness: Intersection returned 0 for two segments that meet in an
\* interior point of A which is the end point b2 of B.
C8_Witness ==
  /\ dist = R(0)
  /\ DirCross(P1, P2, P3, P4) # 0
  /\ 0 < StateT1.num /\ StateT1.num < StateT1.den
  /\ StateT2 = R(1)

\* C10: in the clamped branch the second clamped point is
\* b1 + t2 * (b2 - b1), a point of segment B, the first is
\* a1 + t1 * (a2 - a1), and the result is the distance of the two.
C10_ClampedPoints ==
  (dist # NoValue /\ Branch(P1, P2, P3, P4) = "clamped") =>
    /\ ClosePoint1(P1, P2, Clamp(StateT1)) = PointAt(P1, P2, Clamped(StateT1))
    /\ ClosePoint2(P1, P3, P4, Clamp(StateT2)) = PointAt(P3, P4, Clamped(StateT2))
    /\ dist = SqDistance(PointAt(P1, P2, Clamped(StateT1)),
                         PointAt(P3, P4, Clamped(StateT2)))

(***************************************************************************)
(* Claims on the pairwise check of two single segments, checked under      *)
(* SegmentsSpec.                                                           *)
(***************************************************************************)
Obj == surroundings[1]

\* some ego segment and some segment of the object properly cross
SomeProperCrossing ==
  \E i \in Segments(ego), j \in Segments(Obj) :
    ProperlyCross(ego.future_traj[i], ego.future_traj[i + 1],
                  Obj.future_traj[j], Obj.future_traj[j + 1])

\* some ego segment and some segment of the object share a point
SomeSharedPoint ==
  \E i \in Segments(ego), j \in Segments(Obj) :
    SegmentsShare(ego.future_traj[i], ego.future_traj[i + 1],
                  Obj.future_traj[j], Obj.future_traj[j + 1])

\* some ego segment and some segment of the object share a point and are
\* not parallel (neither is a single point)
SomeSharedPointNotParallel ==
  \E i \in Segments(ego), j \in Segments(Obj) :
    /\ SegmentsShare(ego.future_traj[i], ego.future_traj[i + 1],
                     Obj.future_traj[j], Obj.future_traj[j + 1])
    /\ DirCross(ego.future_traj[i], ego.future_traj[i + 1],
                Obj.future_traj[j], Obj.future_traj[j + 1]) # 0

\* the path (0,0)-(1,1) and the path (0,1)-(1,0) of the claim
CrossingExample ==
  /\ ego.future_traj = <<Waypoint(0, 0), Waypoint(1, 1)>>
  /\ Obj.future_traj = <<Waypoint(0, 1), Waypoint(1, 0)>>

\* C4 as stated: properly crossing segments are reported as a collision by
\* the pairwise check and by collisionCheck for all radii >= 0, 0 and 0
\* included.
C4_CrossingAlwaysCollides ==
  SomeProperCrossing =>
    /\ pairRet # NoCall => pairRet.out = "true"
    /\ ret # NoCall => ret.out = "true"

\* C4 amended: properly crossing segments are reported as a collision by
\* the pairwise check and by collisionCheck exactly when the combined
\* radius is positive; with both radii 0 no collision is reported.
C4_CrossingCollidesIffPositiveRadius ==
  SomeProperCrossing =>
    /\ pairRet # NoCall =>
         (~pairRet.ub /\ (pairRet.out = "true" <=> Combined(Obj) > 0))
    /\ ret # NoCall =>
         (~ret.ub /\ (ret.out = "true" <=> Combined(Obj) > 0))

\* C4 witness: the crossing paths of the claim, one radius positive, both
\* calls made and both reporting the collision.
C4_Witness ==
  /\ CrossingExample
  /\ ego.radius = R(1) /\ Obj.radius = R(0)
  /\ pairRet.out = "true"
  /\ ret.out = "true"

C2_AllPairsStrict ==
  (pairRet # NoCall /\ Len(ego.future_traj) >= 2 /\ Len(Obj.future_traj) >= 2) =>
    /\ ~pairRet.ub
    /\ pairRet.out = (IF SomePairWithin(Obj) THEN "true" ELSE "false")

\* C2 witness: the check returned true although no segment pair with
\* i = j is within the combined radius, and some segment pair lies at
\* exactly the combined radius.
C2_Witness ==
  /\ pairRet.out = "true"
  /\ ~pairRet.ub
  /\ \A i \in Segments(ego) \cap Segments(Obj) : ~ComputedWithin(Obj, i, i)
  /\ \E i \in Segments(ego), j \in Segments(Obj) :
       AtCombined(Obj, i, j) /\ ~ComputedWithin(Obj, i, j)

\* C3: with a trajectory of fewer than 2 waypoints the pairwise check reads
\* no waypoint out of range and returns false.
C3_DegenerateTrajectory ==
  (pairRet # NoCall /\ (Len(ego.future_traj) < 2 \/ Len(Obj.future_traj) < 2)) =>
    pairRet = [out |-> "false", ub |-> FALSE]

Collides(obj) == collisionCheckBetweenTwoPaths(obj, ego) = "true"

\* C1: collisionCheck returns true iff the pairwise check is true for some
\* object of surroundings; reordering surroundings leaves the verdict;
\* appending an object never turns true into false, and changes the
\* verdict only if the appended object collides.
C1_AnyAgentCollides ==
  /\ ret # NoCall =>
       /\ ~ret.ub
       /\ ret.out = (IF \E k \in 1..Len(surroundings) : Collides(surroundings[k])
                     THEN "true" ELSE "false")
  /\ pc = "checkedReordered" => ret = prevRet
  /\ pc = "checkedPushed" =>
       /\ prevRet.out = "true" => ret.out = "true"
       /\ ~Collides(surroundings[Len(surroundings)]) => ret = prevRet

\* C1 witness: after a reordering collisionCheck returned true for a scene
\* whose first object does not collide and whose last object does.
C1_Witness ==
  /\ pc = "checkedReordered"
  /\ ret.out = "true"
  /\ Len(surroundings) >= 2
  /\ ~Collides(surroundings[1])
  /\ Collides(surroundings[Len(surroundings)])

====
